---------------------------- MODULE Spec2Model ----------------------------
(***************************************************************************)
(* Model of the scrape-execution engine of scraper_api: the Celery task    *)
(* scrape_site (tasks.py) running against the ScrapeJob / Quote / Author / *)
(* ScrapeError tables (models.py).                                         *)
(*                                                                         *)
(* Strings are sequences of one-character strings.  Python's None is the   *)
(* one-element sequence None, which is not a string of the alphabet.       *)
(* Timestamps are abstracted to "set" / None.  A sha256 hex digest is      *)
(* represented by its payload (sha256 is taken to be injective).           *)
(***************************************************************************)
EXTENDS Integers, Sequences, FiniteSets, Bags, TLC

\* ------------------------------------------------------------------ bounds

\* Number of scrape_site invocations the queue delivers in all (at-least-once
\* delivery: the same job may be delivered more than once).
MaxRuns == 2

\* ----------------------------------------------------------------- strings

None == <<"None">>

Truthy(s) == s # None /\ s # <<>>

OrEmpty(s) == IF s = None THEN <<>> ELSE s

IsSpace(c) == c \in {" ", "\t"}

LowerChar(c) ==
    CASE c = "A" -> "a"
      [] c = "B" -> "b"
      [] c = "C" -> "c"
      [] c = "X" -> "x"
      [] c = "Y" -> "y"
      [] OTHER -> c

\* str.lower()
Lower(s) == [k \in 1..Len(s) |-> LowerChar(s[k])]

RECURSIVE LStrip(_)
LStrip(s) == IF s # <<>> /\ IsSpace(Head(s)) THEN LStrip(Tail(s)) ELSE s

RECURSIVE RStrip(_)
RStrip(s) ==
    IF s # <<>> /\ IsSpace(s[Len(s)]) THEN RStrip(SubSeq(s, 1, Len(s) - 1)) ELSE s

\* str.strip()
Strip(s) == RStrip(LStrip(s))

\* " ".join(s.split()): the whitespace-separated words joined by one space.
\* s is already stripped.
RECURSIVE JoinSplit(_)
JoinSplit(s) ==
    IF s = <<>> THEN <<>>
    ELSE IF IsSpace(Head(s))
         THEN LET rest == LStrip(s)
              IN  IF rest = <<>> THEN <<>> ELSE <<" ">> \o JoinSplit(rest)
         ELSE <<Head(s)>> \o JoinSplit(Tail(s))

\* models.py compute_quote_hash, line 14
NormText(text) == Lower(JoinSplit(Strip(OrEmpty(text))))

\* Mutant: the author name is normalized like the text, inner whitespace
\* runs collapsed.
NormAuthor_Collapsed(author_name) == Lower(JoinSplit(Strip(OrEmpty(author_name))))

\* models.py compute_quote_hash, line 15: stripped and lowercased, inner
\* whitespace runs are kept
NormAuthor(author_name) == Lower(Strip(OrEmpty(author_name)))

\* models.py compute_quote_hash: the digest of "{norm_text}|{norm_author}"
compute_quote_hash(text, author_name) ==
    NormText(text) \o <<"|">> \o NormAuthor(author_name)


\* -------------------------------------------------------------- site content

\* A site is the ScrapeSite row and the pages it serves.  selectors_ok:
\* quote_selector and author_selector are valid selectors (soup.select raises
\* on one that is not); pagination_ok: the same for pagination_selector.
\*
\* A node of a fetched page, in document order: an element matched by
\* site.quote_selector (inner: the text of the first match of
\* site.author_selector inside it, or None), or an element matched by
\* site.author_selector outside every quote element.  bad: persisting the
\* candidate raises (the author name is longer than Author.name allows).
\* refused: the database refuses the candidate's Quote row, so that
\* Quote.objects.create raises.
Q(text, inner) ==
    [kind |-> "quote", text |-> text, inner |-> inner, bad |-> FALSE, refused |-> FALSE]

QBad(text, inner) ==
    [kind |-> "quote", text |-> text, inner |-> inner, bad |-> TRUE, refused |-> FALSE]

QRefused(text, inner) ==
    [kind |-> "quote", text |-> text, inner |-> inner, bad |-> FALSE, refused |-> TRUE]

ANode(text) ==
    [kind |-> "author", text |-> text, inner |-> None, bad |-> FALSE, refused |-> FALSE]

\* Scenario A: two pages, page 1 with two quotes (the second one with an
\* author element inside it), page 2 with one quote, no author element and
\* no pagination link.
SiteA ==
    [max_pages |-> 2, author_selector |-> TRUE, selectors_ok |-> TRUE,
     pagination_ok |-> TRUE,
     pages |-> << [nodes |-> << Q(<<"a">>, None), Q(<<"b">>, <<"x">>) >>, next |-> 2],
                  [nodes |-> << Q(<<"c">>, None) >>, next |-> 0] >>]

\* One page whose pagination link points to itself; its two quotes differ
\* only in case and whitespace, of the text and of the author name.
SiteDup ==
    [max_pages |-> 2, author_selector |-> TRUE, selectors_ok |-> TRUE,
     pagination_ok |-> TRUE,
     pages |-> << [nodes |-> << Q(<<"a">>, None), ANode(<<"X">>),
                                Q(<<"A", " ">>, None), ANode(<<" ", "x">>) >>,
                   next |-> 1] >>]

\* Scenario E: max_pages = 1 with a pagination link present; the first
\* candidate cannot be persisted, the Quote row of the second is refused.
SiteBad ==
    [max_pages |-> 1, author_selector |-> TRUE, selectors_ok |-> TRUE,
     pagination_ok |-> TRUE,
     pages |-> << [nodes |-> << QBad(<<"b">>, <<"Y">>), QRefused(<<"a">>, <<"x">>),
                                Q(<<"c">>, None) >>,
                   next |-> 2],
                  [nodes |-> << Q(<<"a">>, None) >>, next |-> 0] >>]

\* No author selector configured, and a pagination selector that is not a
\* valid selector.
SiteNoSel ==
    [max_pages |-> 1, author_selector |-> FALSE, selectors_ok |-> TRUE,
     pagination_ok |-> FALSE,
     pages |-> << [nodes |-> << Q(<<"b">>, None) >>, next |-> 0] >>]

\* A quote selector that is not a valid selector.
SiteBadSel ==
    [max_pages |-> 2, author_selector |-> TRUE, selectors_ok |-> FALSE,
     pagination_ok |-> TRUE,
     pages |-> << [nodes |-> << Q(<<"c">>, <<"x">>) >>, next |-> 0] >>]

Sites == {SiteA, SiteDup, SiteBad, SiteNoSel, SiteBadSel}

Jobs == {"j1", "j2"}

\* The Celery worker processes.  Each executes one scrape_site invocation at
\* a time; two workers give every overlap of two invocations.
Runs == {1, 2}

\* ---------------------------------------------------------------- extraction

\* tasks.py line 81: soup.select(site.quote_selector)
QuoteNodes(page) == SelectSeq(page.nodes, LAMBDA n : n.kind = "quote")

RECURSIVE AuthorTexts(_)
AuthorTexts(nodes) ==
    IF nodes = <<>> THEN <<>>
    ELSE LET n == Head(nodes)
         IN  (IF n.kind = "author" THEN <<n.text>>
              ELSE IF n.inner # None THEN <<n.inner>> ELSE <<>>)
             \o AuthorTexts(Tail(nodes))

\* tasks.py line 82: every match of the author selector on the page, the
\* ones inside quote elements included, in document order
AuthorNodes(s, page) == IF s.author_selector THEN AuthorTexts(page.nodes) ELSE <<>>

\* tasks.py lines 87, 90, 95: get_text(separator=" ", strip=True) of an
\* element with one text string: the string, stripped
get_text(s) == Strip(s)

\* tasks.py line 87: the text of the i-th quote node
CandText(page, i) == get_text(QuoteNodes(page)[i].text)

\* Mutant: the author is looked for inside the quote element only.
AuthorName_InnerOnly(s, page, i) ==
    LET qnode == QuoteNodes(page)[i]
    IN  IF s.author_selector /\ qnode.inner # None THEN get_text(qnode.inner) ELSE None

\* tasks.py lines 88-95: the author name of the i-th quote node
AuthorName(s, page, i) ==
    LET author_nodes == AuthorNodes(s, page)
        qnode == QuoteNodes(page)[i]
    IN  IF author_nodes # <<>> /\ i <= Len(author_nodes)
        THEN get_text(author_nodes[i])
        ELSE IF s.author_selector /\ qnode.inner # None
             THEN get_text(qnode.inner) ELSE None

\* tasks.py line 87 and line 102: the hash of the i-th candidate of a page
CandHash(s, page, i) ==
    compute_quote_hash(CandText(page, i), AuthorName(s, page, i))

\* The pages one run can fetch: the start page and the pages its pagination
\* links lead to, at most max_pages of them (tasks.py lines 59-63, 126-133).
RECURSIVE PagesFrom(_, _, _)
PagesFrom(s, url, left) ==
    IF left = 0 \/ url = 0 THEN {}
    ELSE {url} \cup PagesFrom(s, s.pages[url].next, left - 1)

\* The hashes of the candidates of a site that a run can persist.
SiteHashes(s) ==
    UNION { { CandHash(s, s.pages[p], i) :
                i \in { k \in 1..Len(QuoteNodes(s.pages[p])) :
                          /\ ~QuoteNodes(s.pages[p])[k].bad
                          /\ ~QuoteNodes(s.pages[p])[k].refused } } :
            p \in PagesFrom(s, 1, s.max_pages) }

\* tasks.py lines 87-102: the text, the author name and the hash of every
\* candidate of every page of every site: what the run computes for the i-th
\* quote node of a page depends on the page alone.
Candidates ==
    [s \in Sites |->
       [p \in 1..Len(s.pages) |->
          [i \in 1..Len(QuoteNodes(s.pages[p])) |->
             [text |-> CandText(s.pages[p], i),
              author_name |-> AuthorName(s, s.pages[p], i),
              hash |-> CandHash(s, s.pages[p], i)]]]]

\* --------------------------------------------------------------------- state

VARIABLES
    site,           \* the ScrapeSite row all jobs refer to, and its pages
    jobs,           \* the ScrapeJob table: job id -> row
    quotes,         \* the Quote table: a bag of rows
    authors,        \* the Author table: the set of names (name is unique)
    scrape_errors,  \* the ScrapeError table: a bag of rows
    run,            \* per worker, its scrape_site invocation: position and locals
    hist,           \* history of each running invocation (not program state)
    delivered       \* history: the number of invocations delivered per job

vars == <<site, jobs, quotes, authors, scrape_errors, run, hist, delivered>>

\* models.py lines 75-80: the defaults of a new ScrapeJob row
FreshJob ==
    [status |-> "PENDING", started_at |-> "None", finished_at |-> "None",
     quotes_fetched |-> 0, quotes_saved |-> 0, errors_count |-> 0]

IdleRun ==
    [pc |-> "idle", job |-> "none", self |-> FreshJob,
     fetched |-> 0, saved |-> 0, errors |-> 0,
     page_index |-> 0, next_url |-> 0, i |-> 0]

IdleHist == [quotes_at_load |-> 0, all_stored_at_load |-> FALSE, inserted |-> 0,
             recorded |-> 0, fetch_ok |-> 0, fetch_failed |-> FALSE,
             flushed_fetched |-> 0, flushed_saved |-> 0, flushed_errors |-> 0]

Init ==
    /\ site \in Sites
    /\ jobs = [j \in Jobs |-> FreshJob]
    /\ quotes = EmptyBag
    /\ authors = {}
    /\ scrape_errors = EmptyBag
    /\ run = [r \in Runs |-> IdleRun]
    /\ hist = [r \in Runs |-> IdleHist]
    /\ delivered = [j \in Jobs |-> 0]

\* ------------------------------------------------------------------- helpers

Merge(rec, upd) == [f \in DOMAIN rec |-> IF f \in DOMAIN upd THEN upd[f] ELSE rec[f]]

\* Model.save(update_fields=fields): the named fields of the row are written
\* from the in-memory object, the others are left as stored.
Save(stored, obj, fields) ==
    [f \in DOMAIN stored |-> IF f \in fields THEN obj[f] ELSE stored[f]]

\* The number of rows of a table (a bag) that are in the set rows.
CountRows(bag, rows) ==
    BagCardinality([row \in (rows \cap BagToSet(bag)) |-> bag[row]])

\* Quote.objects.filter(hash=h).exists(), tasks.py line 103
QuoteExists(qs, h) == \E row \in BagToSet(qs) : row.hash = h

\* Mutant: the unique constraint on Quote.hash is missing.
UniqueViolation_NoConstraint(qs, h) == FALSE

\* models.py line 151, hash unique=True: an insert of a hash that is already
\* stored raises IntegrityError
UniqueViolation(qs, h) == \E row \in BagToSet(qs) : row.hash = h

\* ScrapeError.objects.create(job=..., url=..., error_type=...)
ErrorRow(j, url, error_type) == [job |-> j, url |-> url, error_type |-> error_type]

\* ----------------------------------------------------- ScrapeJob's methods

\* Mutant: mark_running saves the whole object (no update_fields).
MarkRunningFields_All ==
    {"status", "started_at", "finished_at", "quotes_fetched", "quotes_saved", "errors_count"}

\* models.py lines 86-89: the fields mark_running writes
MarkRunningFields == {"status", "started_at"}

\* models.py lines 86-88: mark_running on the in-memory object
mark_running(obj) == Merge(obj, [status |-> "RUNNING", started_at |-> "set"])

\* Mutant: the errors test comes first and does not look at the saved counter.
MarkFinishedStatus_ErrorsFirst(success, errors_count, quotes_saved) ==
    IF ~success THEN "FAILED"
    ELSE IF errors_count > 0 THEN "PARTIAL"
    ELSE IF quotes_saved > 0 THEN "SUCCESS"
    ELSE "FAILED"

\* models.py lines 98-107: the status mark_finished derives
MarkFinishedStatus(success, errors_count, quotes_saved) ==
    IF ~success THEN "FAILED"
    ELSE IF errors_count > 0 /\ quotes_saved > 0 THEN "PARTIAL"
    ELSE IF quotes_saved > 0 THEN "SUCCESS"
    ELSE "FAILED"

\* Mutant: mark_finished saves the whole object (no update_fields).
MarkFinishedFields_All ==
    {"status", "started_at", "finished_at", "quotes_fetched", "quotes_saved", "errors_count"}

\* Mutant: mark_finished saves the status only.
MarkFinishedFields_StatusOnly == {"status"}

\* models.py line 108: the fields mark_finished writes
MarkFinishedFields == {"status", "finished_at"}

\* Mutant: mark_finished ignores its success argument.
mark_finished_IgnoresSuccess(obj, success) ==
    Merge(obj, [finished_at |-> "set",
                status |-> MarkFinishedStatus(TRUE, obj.errors_count, obj.quotes_saved)])

\* Mutant: mark_finished sets finished_at and leaves the status.
mark_finished_KeepsStatus(obj, success) == Merge(obj, [finished_at |-> "set"])

\* models.py lines 97-107: mark_finished on the in-memory object, whose
\* counters are the ones it was loaded with
mark_finished(obj, success) ==
    Merge(obj, [finished_at |-> "set",
                status |-> MarkFinishedStatus(success, obj.errors_count, obj.quotes_saved)])

\* Mutant: increment_counters does not add the errors delta.
increment_counters_DropsErrors(stored, fetched, saved, errors) ==
    Merge(stored, [quotes_fetched |-> stored.quotes_fetched + fetched,
                   quotes_saved |-> stored.quotes_saved + saved])

\* models.py lines 115-121: increment_counters re-reads the row under
\* select_for_update and writes the three counters of the re-read row
increment_counters(stored, fetched, saved, errors) ==
    Merge(stored, [quotes_fetched |-> stored.quotes_fetched + fetched,
                   quotes_saved |-> stored.quotes_saved + saved,
                   errors_count |-> stored.errors_count + errors])

\* ------------------------------------------------------------ scrape_site

Page(r) == site.pages[run[r].next_url]

\* tasks.py lines 85-102: text, author_name and h of the candidate run r is at
Candidate(r) == Candidates[site][run[r].next_url][run[r].i]

\* Mutant: the page is flushed after its first candidate.
NextCandidate_FlushEarly(i, n) == [pc |-> "flush", i |-> i + 1]

\* tasks.py line 85: where the candidate loop goes after candidate i of n,
\* whether it was saved, skipped or failed
NextCandidate(i, n) ==
    IF i < n THEN [pc |-> "cand", i |-> i + 1] ELSE [pc |-> "flush", i |-> i + 1]

\* Mutant: the handler of the per-candidate guard leaves the candidate loop.
AfterCandidateError_Break(i, n) == [pc |-> "flush", i |-> i + 1]

\* tasks.py lines 113-116: the handler of the per-candidate guard ends the
\* iteration of this candidate only; the loop goes on with the next one
AfterCandidateError(i, n) == NextCandidate(i, n)

\* Mutant: the deltas are not reset after the page's flush.
ResetDeltas_Kept(fetched, saved, errors) ==
    [fetched |-> fetched, saved |-> saved, errors |-> errors]

\* tasks.py lines 121-123: the page-level deltas after a page's flush
ResetDeltas(fetched, saved, errors) == [fetched |-> 0, saved |-> 0, errors |-> 0]

\* The history of a run after it passed these deltas to increment_counters.
Flushed(h, fetched, saved, errors) ==
    Merge(h, [flushed_fetched |-> h.flushed_fetched + fetched,
              flushed_saved |-> h.flushed_saved + saved,
              flushed_errors |-> h.flushed_errors + errors])

\* Mutant: the page loop runs one iteration too many.
LoopContinues_OneMore(page_index, next_url) ==
    page_index <= site.max_pages /\ next_url # 0

\* tasks.py lines 61-63: whether the page loop runs another iteration
LoopContinues(page_index, next_url) == page_index < site.max_pages /\ next_url # 0

\* An invocation that has returned ("done") or raised ("raised"): its locals
\* and its in-memory job object are gone.
Returned(pc, j) == Merge(IdleRun, [pc |-> pc, job |-> j])

RECURSIVE SumOver(_, _)
SumOver(f, S) ==
    IF S = {} THEN 0
    ELSE LET x == CHOOSE y \in S : TRUE IN f[x] + SumOver(f, S \ {x})

\* The number of invocations delivered so far.
Delivered == SumOver(delivered, Jobs)

\* tasks.py line 47: a delivery of scrape_site(job_id) loads the job row.
\* The queue delivers at least once, so a job can be loaded by several runs.
Load(r, j) ==
    /\ run[r].pc \in {"idle", "done", "raised"}
    /\ Delivered < MaxRuns
    \* workers and new jobs are interchangeable: the lowest free worker takes
    \* the delivery, and the first delivery is for j1
    /\ \A q \in Runs : q < r => run[q].pc \notin {"idle", "done", "raised"}
    /\ Delivered = 0 => j = "j1"
    /\ delivered' = [delivered EXCEPT ![j] = @ + 1]
    /\ run' = [run EXCEPT ![r] = Merge(@, [pc |-> "loaded", job |-> j, self |-> jobs[j]])]
    /\ hist' = [hist EXCEPT ![r] = Merge(@,
                  [quotes_at_load |-> BagCardinality(quotes),
                   all_stored_at_load |->
                       \A h \in SiteHashes(site) : QuoteExists(quotes, h)])]
    /\ UNCHANGED <<site, jobs, quotes, authors, scrape_errors>>

\* tasks.py lines 50-60: job.mark_running(), then the locals of the run
MarkRunning(r) ==
    /\ run[r].pc = "loaded"
    /\ LET obj == mark_running(run[r].self)
       IN  /\ jobs' = [jobs EXCEPT ![run[r].job] = Save(@, obj, MarkRunningFields)]
           /\ run' = [run EXCEPT ![r] = Merge(@,
                        [pc |-> IF LoopContinues(0, 1) THEN "fetch" ELSE "final",
                         self |-> obj, fetched |-> 0, saved |-> 0, errors |-> 0,
                         page_index |-> 0, next_url |-> 1])]
    /\ UNCHANGED <<site, quotes, authors, scrape_errors, hist, delivered>>

\* tasks.py lines 67-82: the fetch succeeds and the page is parsed
FetchOk(r) ==
    /\ run[r].pc = "fetch"
    /\ site.selectors_ok
    /\ run' = [run EXCEPT ![r] = Merge(@,
                 [fetched |-> @.fetched + 1]
                 @@ (IF Len(QuoteNodes(Page(r))) > 0
                     THEN [pc |-> "cand", i |-> 1] ELSE [pc |-> "flush", i |-> 1]))]
    /\ hist' = [hist EXCEPT ![r].fetch_ok = @ + 1]
    /\ UNCHANGED <<site, jobs, quotes, authors, scrape_errors, delivered>>

\* tasks.py lines 76-82: the fetch succeeds, and soup.select raises on the
\* invalid selector: an exception outside the per-candidate guard
SelectRaises(r) ==
    /\ run[r].pc = "fetch"
    /\ ~site.selectors_ok
    /\ run' = [run EXCEPT ![r] = Merge(@, [pc |-> "fatal", fetched |-> @.fetched + 1])]
    /\ hist' = [hist EXCEPT ![r].fetch_ok = @ + 1]
    /\ UNCHANGED <<site, jobs, quotes, authors, scrape_errors, delivered>>

\* Mutant: after a failed fetch the page loop goes on with the page's flush
\* and the next page.
AfterFetchError_Continue == "flush"

\* tasks.py line 74: break; a failed fetch ends the page loop, and the run
\* goes on after it, at the final flush
AfterFetchError == "final"

\* tasks.py lines 70-74: the fetch fails (timeout, connection error, HTTP
\* error status): one network error, and the page loop ends
FetchFail(r) ==
    /\ run[r].pc = "fetch"
    /\ run' = [run EXCEPT ![r] = Merge(@, [pc |-> AfterFetchError, errors |-> @.errors + 1])]
    /\ scrape_errors' = scrape_errors (+)
                          SetToBag({ErrorRow(run[r].job, run[r].next_url, "network")})
    /\ hist' = [hist EXCEPT ![r] = Merge(@, [fetch_failed |-> TRUE, recorded |-> @.recorded + 1])]
    /\ UNCHANGED <<site, jobs, quotes, authors, delivered>>

\* Mutant: the author row got or created in the transaction stays when the
\* transaction is left by an exception.
RolledBack_AuthorKept(stored, author_name) ==
    IF Truthy(author_name) THEN stored \cup {author_name} ELSE stored

\* tasks.py line 98: with transaction.atomic(); the Author rows after the
\* block was left by an exception: the ones stored before it
RolledBack(stored, author_name) == stored

\* tasks.py lines 113-116: the handler of the per-candidate guard
CandidateError(r) ==
    /\ run' = [run EXCEPT ![r] = Merge(@,
                 [errors |-> @.errors + 1]
                 @@ AfterCandidateError(run[r].i, Len(QuoteNodes(Page(r)))))]
    /\ scrape_errors' = scrape_errors (+)
                          SetToBag({ErrorRow(run[r].job, run[r].next_url, "parse")})
    /\ hist' = [hist EXCEPT ![r].recorded = @ + 1]

\* tasks.py lines 98-101, 113-116: persisting the candidate raises inside the
\* transaction, which is rolled back
CandFail(r) ==
    /\ run[r].pc = "cand"
    /\ QuoteNodes(Page(r))[run[r].i].bad
    /\ CandidateError(r)
    /\ UNCHANGED <<site, jobs, quotes, authors, delivered>>

\* tasks.py lines 98-103: get_or_create of the author, then the hash is found
\* stored already; the transaction commits with the author
CandSkip(r) ==
    /\ run[r].pc = "cand"
    /\ ~QuoteNodes(Page(r))[run[r].i].bad
    /\ LET author_name == Candidate(r).author_name
           h == Candidate(r).hash
       IN  /\ QuoteExists(quotes, h)
           /\ authors' = IF Truthy(author_name) THEN authors \cup {author_name} ELSE authors
    /\ run' = [run EXCEPT ![r] = Merge(@, NextCandidate(run[r].i, Len(QuoteNodes(Page(r)))))]
    /\ UNCHANGED <<site, jobs, quotes, scrape_errors, hist, delivered>>

\* tasks.py lines 98-103: get_or_create of the author, then the hash is not
\* found; the transaction stays open for the insert
CandCheck(r) ==
    /\ run[r].pc = "cand"
    /\ ~QuoteNodes(Page(r))[run[r].i].bad
    /\ ~QuoteExists(quotes, Candidate(r).hash)
    /\ run' = [run EXCEPT ![r].pc = "insert"]
    /\ UNCHANGED <<site, jobs, quotes, authors, scrape_errors, hist, delivered>>

\* tasks.py lines 104-112: the Quote row is inserted and the transaction
\* commits, with the author row if it is new
CandInsert(r) ==
    /\ run[r].pc = "insert"
    /\ LET author_name == Candidate(r).author_name
           h == Candidate(r).hash
           row == [hash |-> h, text |-> Candidate(r).text,
                   author |-> IF Truthy(author_name) THEN author_name ELSE None,
                   source_url |-> run[r].next_url, saved_by_job |-> run[r].job]
       IN  /\ ~QuoteNodes(Page(r))[run[r].i].refused
           /\ ~UniqueViolation(quotes, h)
           /\ quotes' = quotes (+) SetToBag({row})
           /\ authors' = IF Truthy(author_name) THEN authors \cup {author_name} ELSE authors
    /\ run' = [run EXCEPT ![r] = Merge(@,
                 [saved |-> @.saved + 1]
                 @@ NextCandidate(run[r].i, Len(QuoteNodes(Page(r)))))]
    /\ hist' = [hist EXCEPT ![r].inserted = @ + 1]
    /\ UNCHANGED <<site, jobs, scrape_errors, delivered>>

\* tasks.py lines 104-116: another writer inserted the hash after this run's
\* existence check; the insert raises IntegrityError, the transaction (with
\* the author row) is rolled back and the per-candidate guard handles it
CandIntegrityError(r) ==
    /\ run[r].pc = "insert"
    /\ UniqueViolation(quotes, Candidate(r).hash)
    /\ CandidateError(r)
    /\ authors' = RolledBack(authors, Candidate(r).author_name)
    /\ UNCHANGED <<site, jobs, quotes, delivered>>

\* tasks.py lines 104-116: Quote.objects.create raises, the database refusing
\* the row; the transaction (with the author row) is rolled back and the
\* per-candidate guard handles it
CandInsertRaises(r) ==
    /\ run[r].pc = "insert"
    /\ QuoteNodes(Page(r))[run[r].i].refused
    /\ CandidateError(r)
    /\ authors' = RolledBack(authors, Candidate(r).author_name)
    /\ UNCHANGED <<site, jobs, quotes, delivered>>

\* tasks.py lines 118-143: the page's deltas are flushed and reset, and the
\* next page is decided
PageFlush(r) ==
    /\ run[r].pc = "flush"
    /\ site.pagination_ok
    /\ jobs' = [jobs EXCEPT ![run[r].job] =
                  increment_counters(@, run[r].fetched, run[r].saved, run[r].errors)]
    /\ run' = [run EXCEPT ![r] = Merge(@,
                 [pc |-> IF LoopContinues(run[r].page_index + 1, Page(r).next)
                         THEN "fetch" ELSE "final",
                  page_index |-> @.page_index + 1, next_url |-> Page(r).next]
                 @@ ResetDeltas(run[r].fetched, run[r].saved, run[r].errors))]
    /\ hist' = [hist EXCEPT ![r] = Flushed(@, run[r].fetched, run[r].saved, run[r].errors)]
    /\ UNCHANGED <<site, quotes, authors, scrape_errors, delivered>>

\* tasks.py line 119: increment_counters raises (a database error); its
\* transaction is rolled back and nothing was flushed
FlushRaises(r) ==
    /\ run[r].pc = "flush"
    /\ run' = [run EXCEPT ![r].pc = "fatal"]
    /\ UNCHANGED <<site, jobs, quotes, authors, scrape_errors, hist, delivered>>

\* tasks.py lines 119-128: the page's deltas are flushed and reset, then
\* soup.select_one raises on the invalid pagination selector
PaginateRaises(r) ==
    /\ run[r].pc = "flush"
    /\ ~site.pagination_ok
    /\ jobs' = [jobs EXCEPT ![run[r].job] =
                  increment_counters(@, run[r].fetched, run[r].saved, run[r].errors)]
    /\ run' = [run EXCEPT ![r] = Merge(@,
                 [pc |-> "fatal"] @@ ResetDeltas(run[r].fetched, run[r].saved, run[r].errors))]
    /\ hist' = [hist EXCEPT ![r] = Flushed(@, run[r].fetched, run[r].saved, run[r].errors)]
    /\ UNCHANGED <<site, quotes, authors, scrape_errors, delivered>>

\* tasks.py line 146: the final flush of the deltas, which are not reset
FinalFlush(r) ==
    /\ run[r].pc = "final"
    /\ jobs' = [jobs EXCEPT ![run[r].job] =
                  increment_counters(@, run[r].fetched, run[r].saved, run[r].errors)]
    /\ run' = [run EXCEPT ![r].pc = "finish"]
    /\ hist' = [hist EXCEPT ![r] = Flushed(@, run[r].fetched, run[r].saved, run[r].errors)]
    /\ UNCHANGED <<site, quotes, authors, scrape_errors, delivered>>

\* tasks.py line 146: the final increment_counters raises
FinalFlushRaises(r) ==
    /\ run[r].pc = "final"
    /\ run' = [run EXCEPT ![r].pc = "fatal"]
    /\ UNCHANGED <<site, jobs, quotes, authors, scrape_errors, hist, delivered>>

\* tasks.py lines 148-150: job.mark_finished(success=True) on the object
\* loaded at line 47, and the task returns
Finish(r) ==
    /\ run[r].pc = "finish"
    /\ LET obj == mark_finished(run[r].self, TRUE)
       IN  /\ jobs' = [jobs EXCEPT ![run[r].job] = Save(@, obj, MarkFinishedFields)]
           /\ run' = [run EXCEPT ![r] = Returned("done", run[r].job)]
    /\ hist' = [hist EXCEPT ![r] = IdleHist]
    /\ UNCHANGED <<site, quotes, authors, scrape_errors, delivered>>

\* tasks.py lines 151-157: the handler of an exception raised outside the
\* per-candidate guard; the exception is re-raised to the caller
FatalHandler(r) ==
    /\ run[r].pc = "fatal"
    /\ LET obj == mark_finished(run[r].self, FALSE)
       IN  /\ scrape_errors' = scrape_errors (+)
                                 SetToBag({ErrorRow(run[r].job, 0, "fatal")})
           /\ jobs' = [jobs EXCEPT ![run[r].job] =
                         Save(increment_counters(@, run[r].fetched, run[r].saved, 1),
                              obj, MarkFinishedFields)]
           /\ run' = [run EXCEPT ![r] = Returned("raised", run[r].job)]
    /\ hist' = [hist EXCEPT ![r] = IdleHist]
    /\ UNCHANGED <<site, quotes, authors, delivered>>

Next ==
    \E r \in Runs :
        \/ \E j \in Jobs : Load(r, j)
        \/ MarkRunning(r)
        \/ FetchOk(r)
        \/ SelectRaises(r)
        \/ FetchFail(r)
        \/ CandFail(r)
        \/ CandSkip(r)
        \/ CandCheck(r)
        \/ CandInsert(r)
        \/ CandIntegrityError(r)
        \/ CandInsertRaises(r)
        \/ PageFlush(r)
        \/ FlushRaises(r)
        \/ PaginateRaises(r)
        \/ FinalFlush(r)
        \/ FinalFlushRaises(r)
        \/ Finish(r)
        \/ FatalHandler(r)

Spec == Init /\ [][Next]_vars

\* -------------------------------------------------------------- properties

Terminal == {"SUCCESS", "PARTIAL", "FAILED"}

Active(r) == run[r].pc \notin {"idle", "done", "raised"}

\* The invocation on worker r is the only one ever delivered for its job.
OnlyRunOf(r) == delivered[run[r].job] = 1

\* The object run r loaded had the counters of a new job.
LoadedFresh(r) ==
    /\ run[r].self.quotes_fetched = 0
    /\ run[r].self.quotes_saved = 0
    /\ run[r].self.errors_count = 0

\* The step in which run r calls mark_finished(success=True) and returns.
Finishes(r) == run[r].pc = "finish" /\ run'[r].pc = "done"

\* The step in which run r handles a fatal exception and re-raises it.
HandlesFatal(r) == run[r].pc = "fatal" /\ run'[r].pc = "raised"

ErrorsOf(bag, j) == CountRows(bag, { row \in BagToSet(bag) : row.job = j })

ErrorsOfType(bag, j, t) ==
    CountRows(bag, { row \in BagToSet(bag) : row.job = j /\ row.error_type = t })

\* C1: a run of a fresh job in which every fetch succeeds, at least one quote
\* is stored and no error is recorded leaves the job SUCCESS, with
\* quotes_saved equal to the number of quotes it stored and errors_count 0.
C1_FreshRunEndsSuccess ==
    [][\A r \in Runs :
         (/\ Finishes(r)
          /\ LoadedFresh(r)
          /\ OnlyRunOf(r)
          /\ ~hist[r].fetch_failed
          /\ hist[r].inserted >= 1
          /\ hist[r].recorded = 0)
         => /\ jobs'[run[r].job].status = "SUCCESS"
            /\ jobs'[run[r].job].quotes_saved = hist[r].inserted
            /\ jobs'[run[r].job].errors_count = 0]_vars

\* The status table of claim C2.
C2_Table(success, saved, errors) ==
    CASE ~success -> "FAILED"
      [] success /\ saved = 0 -> "FAILED"
      [] success /\ saved > 0 /\ errors = 0 -> "SUCCESS"
      [] success /\ saved > 0 /\ errors > 0 -> "PARTIAL"

C3_OneRowPerHash ==
    \A row \in BagToSet(quotes) :
        CountRows(quotes, { x \in BagToSet(quotes) : x.hash = row.hash }) = 1

\* A run passed the existence check for a hash that another run has stored
\* since: its insert is about to hit the unique constraint.
C3_Witness ==
    \E r \in Runs :
        /\ run[r].pc = "insert"
        /\ QuoteExists(quotes, CandHash(site, Page(r), run[r].i))

\* C4: a run that starts when every hash of the site's content is stored
\* adds no Quote row and has a saved delta of 0; and a job's quotes_saved
\* never exceeds the number of distinct hashes its runs stored.
C4_RerunAddsNothing ==
    /\ \A r \in Runs :
         (Active(r) /\ hist[r].all_stored_at_load)
         => /\ BagCardinality(quotes) = hist[r].quotes_at_load
            /\ run[r].saved = 0
            /\ hist[r].inserted = 0
    /\ \A j \in Jobs :
         jobs[j].quotes_saved <=
           Cardinality({ row.hash : row \in { x \in BagToSet(quotes) : x.saved_by_job = j } })

\* A second run of a job that saved quotes before, started with all content
\* stored, has processed its pages and is about to finish.
C4_Witness ==
    \E r \in Runs :
        /\ hist[r].all_stored_at_load
        /\ run[r].pc = "finish"
        /\ hist[r].fetch_ok >= 1
        /\ run[r].self.quotes_saved > 0

\* C5: once a job's status is SUCCESS, PARTIAL or FAILED it never changes.
C5_TerminalIsFinal ==
    [][\A j \in Jobs :
         jobs[j].status \in Terminal => jobs'[j].status = jobs[j].status]_vars

\* C6: for a fresh job, a failed fetch of the first page goes to the final
\* flush (it is not propagated), and the run ends with the job FAILED,
\* quotes_fetched = 0, quotes_saved = 0, errors_count = 1 and exactly one
\* ScrapeError row of the job, of type network.
C6_FirstFetchFails ==
    [][\A r \in Runs :
         /\ (run[r].pc = "fetch" /\ ~hist[r].fetch_failed /\ hist'[r].fetch_failed)
            => run'[r].pc = "final"
         /\ (/\ Finishes(r)
             /\ LoadedFresh(r)
             /\ OnlyRunOf(r)
             /\ hist[r].fetch_failed
             /\ hist[r].fetch_ok = 0)
            => /\ jobs'[run[r].job].status = "FAILED"
               /\ jobs'[run[r].job].quotes_fetched = 0
               /\ jobs'[run[r].job].quotes_saved = 0
               /\ jobs'[run[r].job].errors_count = 1
               /\ ErrorsOf(scrape_errors', run[r].job) = 1
               /\ ErrorsOfType(scrape_errors', run[r].job, "network") = 1]_vars

\* The only run of a job returned after its first fetch failed.
C6_Witness ==
    \E r \in Runs :
        /\ run[r].pc = "done"
        /\ OnlyRunOf(r)
        /\ jobs[run[r].job].quotes_fetched = 0
        /\ jobs[run[r].job].errors_count = 1
        /\ jobs[run[r].job].status = "FAILED"
        /\ ErrorsOfType(scrape_errors, run[r].job, "network") = 1

CandidateFails(r) ==
    \/ run[r].pc = "cand" /\ QuoteNodes(Page(r))[run[r].i].bad
    \/ run[r].pc = "insert" /\ UniqueViolation(quotes, CandHash(site, Page(r), run[r].i))

\* C8: a failure of one candidate is recorded as one ScrapeError of type
\* parse and one error count, does not leave the run, and the remaining
\* candidates of the page are still processed: the page is flushed only
\* after its last candidate, and the page loop then goes on to the next page
\* if there is one within the page cap.
C8_CandidateFailureIsLocal ==
    /\ [][\A r \in Runs :
            (CandidateFails(r) /\ run'[r] # run[r])
            => /\ run'[r].errors = run[r].errors + 1
               /\ BagCardinality(scrape_errors') = BagCardinality(scrape_errors) + 1
               /\ ErrorsOfType(scrape_errors', run[r].job, "parse") =
                    ErrorsOfType(scrape_errors, run[r].job, "parse") + 1
               /\ run'[r].i = run[r].i + 1
               /\ run'[r].next_url = run[r].next_url
               /\ run'[r].pc =
                    IF run[r].i < Len(QuoteNodes(Page(r))) THEN "cand" ELSE "flush"]_vars
    /\ [](\A r \in Runs :
            run[r].pc = "flush" => run[r].i = Len(QuoteNodes(Page(r))) + 1)
    /\ [][\A r \in Runs :
            (run[r].pc = "flush" /\ run[r].errors > 0 /\ run'[r].pc \notin {"flush", "fatal"})
            => run'[r].pc =
                 IF run[r].page_index + 1 < site.max_pages /\ Page(r).next # 0
                 THEN "fetch" ELSE "final"]_vars

\* After the first candidate of a page failed, the run is at the second.
C8_Witness ==
    \E r \in Runs :
        /\ run[r].pc = "cand"
        /\ run[r].i = 2
        /\ run[r].errors = 1
        /\ ErrorsOfType(scrape_errors, run[r].job, "parse") >= 1

\* C9: an insert that hits the hash uniqueness constraint is a benign
\* duplicate: no ScrapeError is recorded, the errors delta is not
\* incremented and the run is not failed.
C9_DuplicateIsBenign ==
    [][\A r \in Runs :
         (/\ run[r].pc = "insert"
          /\ UniqueViolation(quotes, CandHash(site, Page(r), run[r].i))
          /\ run'[r] # run[r])
         => /\ run'[r].errors = run[r].errors
            /\ scrape_errors' = scrape_errors
            /\ run'[r].pc \in {"cand", "flush"}]_vars

\* C10: the three stored counters of a job never decrease.
C10_CountersMonotone ==
    [][\A j \in Jobs :
         /\ jobs'[j].quotes_fetched >= jobs[j].quotes_fetched
         /\ jobs'[j].quotes_saved >= jobs[j].quotes_saved
         /\ jobs'[j].errors_count >= jobs[j].errors_count]_vars

\* A job was finalized by a run whose in-memory counters were stale: the
\* stored counters are positive and the only run of the job, which loaded
\* them as 0, has returned.
C10_Witness ==
    \E r \in Runs :
        /\ run[r].pc \in {"done", "raised"}
        /\ OnlyRunOf(r)
        /\ jobs[run[r].job].finished_at = "set"
        /\ jobs[run[r].job].quotes_fetched > 0
        /\ jobs[run[r].job].quotes_saved > 0
        /\ jobs[run[r].job].errors_count > 0

\* ------------------------------------------- increment_counters, step by step

\* Number of increment_counters calls made in all in SpecInc.
MaxCalls == 3

\* The deltas a caller passes to increment_counters.
Deltas == {0, 1}

\* models.py line 121: the fields increment_counters writes
IncrementFields == {"quotes_fetched", "quotes_saved", "errors_count"}

\* Mutant: the row is read without select_for_update.
RowLockFree_NoLock(j) == TRUE

\* models.py line 117, select_for_update(): the row of job j is locked by the
\* transaction of a caller that has read it and not yet committed
RowLockFree(j) == \A q \in Runs : ~(run[q].pc = "inc_locked" /\ run[q].job = j)

\* The initial states of SpecInc: one job row, with any small counters, and
\* an untouched copy of it as row j2.
InitInc ==
    /\ site = SiteNoSel
    /\ \E f \in Deltas, s \in Deltas, e \in Deltas :
         jobs = [j \in Jobs |->
                   Merge(FreshJob, [quotes_fetched |-> f, quotes_saved |-> s,
                                    errors_count |-> e])]
    /\ quotes = EmptyBag
    /\ authors = {}
    /\ scrape_errors = EmptyBag
    /\ run = [r \in Runs |-> IdleRun]
    /\ hist = [r \in Runs |-> IdleHist]
    /\ delivered = [j \in Jobs |-> 0]

\* models.py lines 115-117: a caller enters transaction.atomic() and re-reads
\* the row of j1 under select_for_update, waiting while another transaction
\* holds the row lock.  fetched, saved, errors are the call's arguments;
\* delivered counts the calls.
IncLock(r, fetched, saved, errors) ==
    /\ run[r].pc = "idle"
    /\ Delivered < MaxCalls
    /\ RowLockFree("j1")
    /\ run' = [run EXCEPT ![r] = Merge(@,
                 [pc |-> "inc_locked", job |-> "j1", self |-> jobs["j1"],
                  fetched |-> fetched, saved |-> saved, errors |-> errors])]
    /\ delivered' = [delivered EXCEPT !["j1"] = @ + 1]
    /\ UNCHANGED <<site, jobs, quotes, authors, scrape_errors, hist>>

\* models.py lines 118-121: the counters of the re-read row are incremented
\* and saved, and the transaction commits, releasing the row lock.  hist
\* accumulates the deltas of the caller's completed calls.
IncSave(r) ==
    /\ run[r].pc = "inc_locked"
    /\ jobs' = [jobs EXCEPT ![run[r].job] =
                  Save(@, increment_counters(run[r].self, run[r].fetched,
                                             run[r].saved, run[r].errors),
                       IncrementFields)]
    /\ hist' = [hist EXCEPT ![r] = Merge(@,
                  [fetch_ok |-> @.fetch_ok + run[r].fetched,
                   inserted |-> @.inserted + run[r].saved,
                   recorded |-> @.recorded + run[r].errors])]
    /\ run' = [run EXCEPT ![r] = IdleRun]
    /\ UNCHANGED <<site, quotes, authors, scrape_errors, delivered>>

NextInc ==
    \E r \in Runs :
        \/ \E f \in Deltas, s \in Deltas, e \in Deltas : IncLock(r, f, s, e)
        \/ IncSave(r)

SpecInc == InitInc /\ [][NextInc]_vars

\* C11: concurrent increment_counters calls on one job row lose no update:
\* each stored counter is its initial value (kept in the untouched row j2)
\* plus the sum of the deltas of all completed calls, in every interleaving.
C11_NoLostUpdate ==
    /\ jobs["j1"].quotes_fetched =
         jobs["j2"].quotes_fetched + hist[1].fetch_ok + hist[2].fetch_ok
    /\ jobs["j1"].quotes_saved =
         jobs["j2"].quotes_saved + hist[1].inserted + hist[2].inserted
    /\ jobs["j1"].errors_count =
         jobs["j2"].errors_count + hist[1].recorded + hist[2].recorded

\* Both callers have completed calls with positive deltas, on a row that had
\* positive counters, and a further call holds the row lock.
C11_Witness ==
    /\ hist[1].fetch_ok > 0 /\ hist[1].recorded > 0
    /\ hist[2].fetch_ok > 0 /\ hist[2].inserted > 0
    /\ jobs["j2"].quotes_fetched > 0
    /\ \E r \in Runs : run[r].pc = "inc_locked"

\* The number of page fetches a run has performed so far, successful or not.
PageFetches(r) == hist[r].fetch_ok + (IF hist[r].fetch_failed THEN 1 ELSE 0)

\* A page's flush after which the pagination link resolves to the URL of the
\* page just fetched.
FollowsSelfLink(r) ==
    /\ run[r].pc = "flush" /\ run'[r].pc \in {"fetch", "final"}
    /\ Page(r).next = run[r].next_url

MaxLen == 4

\* The characters of the texts and of the author names of SpecHash.
TextChars == {"A", " "}
AuthorChars == {"a", "A", " "}

Strs(chars) == UNION { [1..k -> chars] : k \in 0..MaxLen }

SwapCase(s) == [k \in 1..Len(s) |-> CASE s[k] = "a" -> "A" [] s[k] = "A" -> "a" [] OTHER -> s[k]]

\* s with every whitespace character doubled.
RECURSIVE DoubleSpaces(_)
DoubleSpaces(s) ==
    IF s = <<>> THEN <<>>
    ELSE (IF IsSpace(Head(s)) THEN <<Head(s), Head(s)>> ELSE <<Head(s)>>)
         \o DoubleSpaces(Tail(s))

\* The normalization the claim speaks of: whitespace runs collapsed, stripped,
\* lowercased.
Normalize(s) == Lower(JoinSplit(Strip(OrEmpty(s))))

\* Stripped and lowercased only.
StripLower(s) == Lower(Strip(OrEmpty(s)))

\* The text and the author name the calls of SpecHash start from: the one
\* quote node of the site's page.
InText == site.pages[1].nodes[1].text
InAuthor == site.pages[1].nodes[1].inner

\* The initial states of SpecHash: any text and any author name (or None).
InitHash ==
    /\ \E text \in Strs(TextChars), author_name \in Strs(AuthorChars) \cup {None} :
         site = [max_pages |-> 1, author_selector |-> TRUE, selectors_ok |-> TRUE,
                 pagination_ok |-> TRUE,
                 pages |-> <<[nodes |-> <<Q(text, author_name)>>, next |-> 0]>>]
    /\ jobs = [j \in Jobs |-> FreshJob]
    /\ quotes = EmptyBag
    /\ authors = {}
    /\ scrape_errors = EmptyBag
    /\ run = [r \in Runs |-> IdleRun]
    /\ hist = [r \in Runs |-> IdleHist]
    /\ delivered = [j \in Jobs |-> 0]

\* models.py lines 9-17: a call of compute_quote_hash; its arguments and its
\* result are kept as a row of quotes.
HashCall(text, author_name) ==
    /\ quotes' = quotes (+) SetToBag({[hash |-> compute_quote_hash(text, author_name),
                                       text |-> text, author |-> author_name,
                                       source_url |-> 0, saved_by_job |-> "none"]})
    /\ UNCHANGED <<site, jobs, authors, scrape_errors, run, hist, delivered>>

\* The call on the input.
HashInput == BagCardinality(quotes) = 0 /\ HashCall(InText, InAuthor)

\* The call on the input with both arguments normalized as the claim says.
HashNormalized ==
    BagCardinality(quotes) = 1 /\ HashCall(Normalize(InText), Normalize(InAuthor))

\* The call on an input that differs from the first in case, in the length of
\* the whitespace runs of the text and in leading and trailing whitespace.
HashVariant ==
    /\ BagCardinality(quotes) = 2
    /\ HashCall(<<" ">> \o SwapCase(DoubleSpaces(InText)) \o <<"\t">>,
                <<"\t">> \o SwapCase(OrEmpty(InAuthor)) \o <<" ">>)

\* The call on an input that differs from the first in the length of the
\* whitespace runs of the author name.
HashAuthorSpaced ==
    BagCardinality(quotes) = 3 /\ HashCall(InText, DoubleSpaces(OrEmpty(InAuthor)))

NextHash == HashInput \/ HashNormalized \/ HashVariant \/ HashAuthorSpaced

SpecHash == InitHash /\ [][NextHash]_vars

StoresQuote(r) == run[r].pc = "insert" /\ run'[r].saved = run[r].saved + 1

\* The texts of the elements the author selector matches on the page of run
\* r, in document order; none when no author selector is configured.
AuthorSequence(r) == IF site.author_selector THEN AuthorTexts(Page(r).nodes) ELSE <<>>

\* The author of the current candidate of run r by the claim's priority order.
ResolvedAuthor(r) ==
    LET i == run[r].i
        inner == QuoteNodes(Page(r))[i].inner
    IN  IF i <= Len(AuthorSequence(r)) THEN Strip(AuthorSequence(r)[i])
        ELSE IF site.author_selector /\ inner # None THEN Strip(inner)
        ELSE None

NetworkErrors(bag, j) == ErrorsOfType(bag, j, "network")

FlushesPage(r) == run[r].pc = "flush" /\ run'[r].pc \in {"fetch", "final"}
FlushesFinal(r) == run[r].pc = "final" /\ run'[r].pc = "finish"

\* The stored counters of job j grow by exactly these amounts in the step.
CountersGrowBy(j, fetched, saved, errors) ==
    /\ jobs'[j].quotes_fetched = jobs[j].quotes_fetched + fetched
    /\ jobs'[j].quotes_saved = jobs[j].quotes_saved + saved
    /\ jobs'[j].errors_count = jobs[j].errors_count + errors

\* C16: in a run that ends without a fatal exception every in-memory delta
\* is added to the stored counters exactly once.  A page's flush comes after
\* all candidates of the page, adds the deltas to the stored counters and
\* resets them; the final flush adds the deltas left; so when the run
\* finishes, what it has added to the stored counters is exactly the number
\* of pages it fetched, of Quote rows it created and of ScrapeError rows it
\* recorded.
C16_DeltasFlushedOnce ==
    [][\A r \in Runs :
         /\ FlushesPage(r)
              => /\ run[r].i > Len(QuoteNodes(Page(r)))
                 /\ CountersGrowBy(run[r].job, run[r].fetched, run[r].saved,
                                   run[r].errors)
                 /\ run'[r].fetched = 0 /\ run'[r].saved = 0 /\ run'[r].errors = 0
                 /\ run[r].fetched = 1
                 /\ hist'[r].flushed_fetched = hist[r].fetch_ok
                 /\ hist'[r].flushed_saved = hist[r].inserted
                 /\ hist'[r].flushed_errors = hist[r].recorded
         /\ FlushesFinal(r)
              => CountersGrowBy(run[r].job, run[r].fetched, run[r].saved,
                                run[r].errors)
         /\ Finishes(r)
              => /\ hist[r].flushed_fetched = hist[r].fetch_ok
                 /\ hist[r].flushed_saved = hist[r].inserted
                 /\ hist[r].flushed_errors = hist[r].recorded
                 /\ CountersGrowBy(run[r].job, 0, 0, 0)]_vars

\* A run is about to finish: its page flush added a fetched page and the
\* quotes saved, its final flush the network error of the second fetch, on a
\* job whose stored counters another run has changed as well.
C16_Witness ==
    \E r \in Runs :
        /\ run[r].pc = "finish"
        /\ hist[r].fetch_ok = 1 /\ hist[r].inserted > 0 /\ hist[r].fetch_failed
        /\ hist[r].flushed_fetched = 1 /\ hist[r].flushed_errors = 1
        /\ jobs[run[r].job].quotes_fetched > 1

\* C17: in the step of the fatal handler the stored counters grow by the
\* deltas not yet flushed, with one more error: by fetched, by saved and by
\* errors + 1, wherever the fatal exception was raised.
C17_FatalFlushesResidual ==
    [][\A r \in Runs : HandlesFatal(r) =>
         CountersGrowBy(run[r].job, run[r].fetched, run[r].saved,
                        run[r].errors + 1)]_vars


\* The three counters of a job row.
Counters(row) == <<row.quotes_fetched, row.quotes_saved, row.errors_count>>

\* C18: once a job has been finalized (mark_finished has set finished_at,
\* with a terminal status) no step changes its three counters, whether of a
\* re-run, of a retry or of an overlapping run of a duplicate delivery.
C18_NoCounterChangeAfterFinalization ==
    [][\A j \in Jobs :
         jobs[j].finished_at # "None" => Counters(jobs'[j]) = Counters(jobs[j])]_vars

\* No run of job j has ended: each of its deliveries is still in progress.
NeverFinalized(j) ==
    Cardinality({ r \in Runs : run[r].job = j /\ Active(r) }) = delivered[j]

\* C19: a job whose status is SUCCESS, PARTIAL or FAILED has finished_at
\* set; a job that was never finalized (PENDING, or RUNNING with none of its
\* runs ended) has finished_at null; finished_at is set by the
\* mark_finished of a run of the job and by nothing else, together with a
\* terminal status, and is never cleared.
C19_TerminalHasFinishedAt ==
    [][\A j \in Jobs :
         /\ jobs'[j].status \in Terminal => jobs'[j].finished_at # "None"
         /\ jobs'[j].status = "PENDING" => jobs'[j].finished_at = "None"
         /\ NeverFinalized(j)' => jobs'[j].finished_at = "None"
         /\ jobs'[j].finished_at # jobs[j].finished_at
              => /\ jobs[j].finished_at = "None"
                 /\ jobs'[j].status \in Terminal
                 /\ \E r \in Runs : run[r].job = j /\ (Finishes(r) \/ HandlesFatal(r))]_vars

\* One job is finalized with a terminal status, the other is RUNNING in its
\* first run.
C19_Witness ==
    /\ jobs["j1"].status \in Terminal /\ jobs["j1"].finished_at = "set"
    /\ jobs["j2"].status = "RUNNING" /\ jobs["j2"].finished_at = "None"
    /\ delivered["j2"] = 1 /\ NeverFinalized("j2")


\* C20: a candidate whose hash already belongs to a stored Quote causes no
\* write: the step that handles it changes neither the Author rows nor the
\* Quote rows; so an Author row is created only with the Quote row of a
\* candidate whose hash was not stored.
C20_NoWriteWhenHashExists ==
    [][\A r \in Runs :
         /\ (/\ run[r].pc = "cand" /\ run'[r] # run[r]
             /\ ~QuoteNodes(Page(r))[run[r].i].bad
             /\ QuoteExists(quotes, CandHash(site, Page(r), run[r].i)))
              => authors' = authors /\ quotes' = quotes
         /\ (run'[r] # run[r] /\ authors' # authors)
              => /\ BagCardinality(quotes') = BagCardinality(quotes) + 1
                 /\ ~QuoteExists(quotes, CandHash(site, Page(r), run[r].i))]_vars


\* The step in which the Quote insert of the current candidate of run r
\* fails: the run was in the candidate's transaction and no Quote row was
\* added.
InsertFails(r) ==
    run[r].pc = "insert" /\ run'[r].pc # "insert" /\ run'[r].saved = run[r].saved

\* C21: the author and quote writes of one candidate are atomic.  While the
\* candidate's transaction is open its author row is not stored; if the
\* Quote insert fails, the Author rows and the Quote rows are left as they
\* were, and one parse error of the job is recorded and stays; and a step
\* that leaves the transaction with an Author row added adds the Quote row
\* that refers to it in the same step.
C21_CandidateAtomic ==
    [][\A r \in Runs :
         /\ (run[r].pc = "cand" /\ run'[r].pc = "insert")
              => authors' = authors /\ quotes' = quotes
         /\ InsertFails(r)
              => /\ authors' = authors /\ quotes' = quotes
                 /\ scrape_errors' = scrape_errors (+)
                      SetToBag({ErrorRow(run[r].job, run[r].next_url, "parse")})
                 /\ run'[r].errors = run[r].errors + 1
         /\ (run[r].pc = "insert" /\ run'[r].pc # "insert" /\ authors' # authors)
              => \E q \in BagToSet(quotes') \ BagToSet(quotes) :
                   /\ authors' = authors \cup {q.author}
                   /\ q.hash = CandHash(site, Page(r), run[r].i)
         /\ (\E q \in Runs : run[q].pc # run'[q].pc) /\ scrape_errors # EmptyBag
              => \A row \in BagToSet(scrape_errors) :
                   CopiesIn(row, scrape_errors') >= CopiesIn(row, scrape_errors)]_vars

\* The Quote insert of a candidate with an author that has no row failed
\* after the author was got or created in the transaction: the parse error is
\* stored, the author is not.
C21_Witness ==
    /\ site = SiteBad
    /\ authors = {} /\ quotes = EmptyBag
    /\ \E r \in Runs :
         /\ run[r].pc = "cand" /\ run[r].i = 3 /\ run[r].errors = 2
         /\ AuthorName(site, Page(r), 2) = <<"x">>
         /\ ErrorsOfType(scrape_errors, run[r].job, "parse") = 2

\* ---------------------------------------------------------------- liveness

\* A step of the invocation worker r is executing.
RunStep(r) ==
    \/ MarkRunning(r) \/ FetchOk(r) \/ SelectRaises(r) \/ FetchFail(r)
    \/ CandFail(r) \/ CandSkip(r) \/ CandCheck(r) \/ CandInsert(r)
    \/ CandIntegrityError(r) \/ CandInsertRaises(r)
    \/ PageFlush(r) \/ FlushRaises(r) \/ PaginateRaises(r)
    \/ FinalFlush(r) \/ FinalFlushRaises(r) \/ Finish(r) \/ FatalHandler(r)

\* A worker process goes on executing the invocation it has taken: the fetch
\* returns or times out, and every other step is a statement of scrape_site.
LiveSpec == Init /\ [][Next]_vars /\ \A r \in Runs : WF_vars(RunStep(r))

\* C22: every invocation that has loaded its job terminates, and it ends
\* with mark_finished: the step in which it returns or raises stores a
\* terminal status and finished_at for its job; so whenever a job has had a
\* run and none is in progress, the job is terminal with finished_at set,
\* never RUNNING.  This for every site: fetches that fail, candidates that
\* fail, selectors that raise, and a page that links to itself.
C22_RunFinalizes ==
    /\ \A r \in Runs : Active(r) ~> ~Active(r)
    /\ [][\A r \in Runs :
            (Active(r) /\ ~Active(r)')
            => /\ Finishes(r) \/ HandlesFatal(r)
               /\ jobs'[run[r].job].status \in Terminal
               /\ jobs'[run[r].job].finished_at # "None"]_vars
    /\ [](\A j \in Jobs :
            (delivered[j] > 0 /\ \A r \in Runs : run[r].job = j => ~Active(r))
            => jobs[j].status \in Terminal /\ jobs[j].finished_at # "None")

\* A run on the site whose page links to itself has returned after fetching
\* the page twice, and its job is terminal.
C22_Witness ==
    /\ site = SiteDup
    /\ \E r \in Runs :
         /\ run[r].pc = "done" /\ run[r].job = "j1"
         /\ jobs["j1"].quotes_fetched = 2
         /\ jobs["j1"].status \in Terminal


\* C23: whenever no run of a job is in progress, the job's stored
\* errors_count is the number of ScrapeError rows that refer to the job.
C23_ErrorsCountMatchesRows ==
    \A j \in Jobs :
        (\A r \in Runs : run[r].job = j => ~Active(r))
        => jobs[j].errors_count = ErrorsOf(scrape_errors, j)


\* The lifecycle fields of a job row.
Lifecycle(row) == <<row.status, row.started_at, row.finished_at>>

\* The step in which run r calls mark_running.
MarksRunning(r) == run[r].pc = "loaded" /\ run'[r].pc # "loaded"

\* C24: lifecycle transitions and counter updates write disjoint fields of
\* the job row.  The steps of mark_running and of mark_finished leave the
\* stored counters as they are, whatever the counters of the calling object
\* (the fatal handler's step changes them by its increment_counters only);
\* the steps of increment_counters leave the stored status, started_at and
\* finished_at as they are.
C24_DisjointFields ==
    [][\A r \in Runs :
         /\ (MarksRunning(r) \/ Finishes(r))
              => Counters(jobs'[run[r].job]) = Counters(jobs[run[r].job])
         /\ HandlesFatal(r)
              => CountersGrowBy(run[r].job, run[r].fetched, run[r].saved, 1)
         /\ (run[r].pc \in {"flush", "final"} /\ run'[r].pc # run[r].pc)
              => Lifecycle(jobs'[run[r].job]) = Lifecycle(jobs[run[r].job])]_vars

\* A run is about to call mark_finished on an object whose counters are
\* stale, after its increment_counters ran on a row that an overlapping run
\* had finalized.
C24_Witness ==
    \E r \in Runs :
        /\ run[r].pc = "finish"
        /\ Counters(run[r].self) # Counters(jobs[run[r].job])
        /\ run[r].self.status = "RUNNING"
        /\ jobs[run[r].job].status \in Terminal


=============================================================================
